---- MODULE Spec2Model ----
(***************************************************************************)
(* Model of scripts/telnyx_api.py: the ClawdTalk missions CLI client.      *)
(*                                                                         *)
(* Each CLI invocation is a process that walks through main() and the      *)
(* workflow it dispatches to.  One step of a process is one observable     *)
(* effect: one HTTP request (api_request), one read of the state file      *)
(* (load_state) or one write of it (save_state).  Two processes may run    *)
(* at the same time; the state file is shared and has no lock.             *)
(*                                                                         *)
(* The remote API answers every request either with a failure (transport   *)
(* error or HTTP 4xx/5xx) or with a well-formed response that carries the  *)
(* identifier where the client looks for it.                               *)
(***************************************************************************)
EXTENDS Integers, Sequences, FiniteSets, TLC

\* ------------------------------------------------------------------ bounds
MaxInv == 3          \* CLI invocations started in one behaviour

MaxLen == 4          \* characters of a mission name given to slugify

MaxConc == 2         \* ... in a behaviour in which invocations overlap

Procs == {1, 2}      \* CLI processes that can run at the same time

\* ------------------------------------------------------------- value model
None == 0            \* Python None (dict.get default); every real id is >= 1

EmptyMap == <<>>     \* the empty dict {}

Truthy(v) == v # None

\* d.get(k)
Get(d, k) == IF k \in DOMAIN d THEN d[k] ELSE None

\* state.get(slug, {})
GetEntry(doc, slug) == IF slug \in DOMAIN doc THEN doc[slug] ELSE EmptyMap

\* entry.update(updates)
DictUpdate(entry, updates) ==
    [k \in (DOMAIN entry) \cup (DOMAIN updates) |->
        IF k \in DOMAIN updates THEN updates[k] ELSE entry[k]]

\* d[k] = v
SetKey(d, k, v) == [x \in (DOMAIN d) \cup {k} |-> IF x = k THEN v ELSE d[x]]

\* del d[k]
DelKey(d, k) == [x \in (DOMAIN d) \ {k} |-> d[x]]

\* ---------------------------------------------------------------- slugify
Digits == {"0", "1", "2", "3", "4", "5", "6", "7", "8", "9"}

UpperCase ==
    {"A", "B", "C", "D", "E", "F", "G", "H", "I", "J", "K", "L", "M",
     "N", "O", "P", "Q", "R", "S", "T", "U", "V", "W", "X", "Y", "Z"}

\* str.lower() on one character
Lower(c) ==
    IF c \notin UpperCase THEN c
    ELSE
         CASE c = "A" -> "a"
           [] c = "B" -> "b"
           [] c = "C" -> "c"
           [] c = "D" -> "d"
           [] c = "E" -> "e"
           [] c = "F" -> "f"
           [] c = "G" -> "g"
           [] c = "H" -> "h"
           [] c = "I" -> "i"
           [] c = "J" -> "j"
           [] c = "K" -> "k"
           [] c = "L" -> "l"
           [] c = "M" -> "m"
           [] c = "N" -> "n"
           [] c = "O" -> "o"
           [] c = "P" -> "p"
           [] c = "Q" -> "q"
           [] c = "R" -> "r"
           [] c = "S" -> "s"
           [] c = "T" -> "t"
           [] c = "U" -> "u"
           [] c = "V" -> "v"
           [] c = "W" -> "w"
           [] c = "X" -> "x"
           [] c = "Y" -> "y"
           [] c = "Z" -> "z"

\* the characters of [a-z0-9]
SlugChars ==
    {"a", "b", "c", "d", "e", "f", "g", "h", "i", "j", "k", "l", "m",
     "n", "o", "p", "q", "r", "s", "t", "u", "v", "w", "x", "y", "z"} \cup Digits

\* re.sub(r"[^a-z0-9]", "-", slug)
SubNonAlnum(s) == [i \in 1..Len(s) |-> IF s[i] \in SlugChars THEN s[i] ELSE "-"]

\* runs of hyphens are kept as they are
CollapseHyphens_Keep(s) == s

\* re.sub(r"-+", "-", slug)
RECURSIVE CollapseHyphens(_)
CollapseHyphens(s) ==
    IF Len(s) <= 1 THEN s
    ELSE IF s[1] = "-" /\ s[2] = "-" THEN CollapseHyphens(Tail(s))
         ELSE <<s[1]>> \o CollapseHyphens(Tail(s))

\* slug.strip("-")
RECURSIVE StripHyphens(_)
StripHyphens(s) ==
    IF s = <<>> THEN s
    ELSE IF s[1] = "-" THEN StripHyphens(Tail(s))
    ELSE IF s[Len(s)] = "-" THEN StripHyphens(SubSeq(s, 1, Len(s) - 1))
    ELSE s

slugify(name) ==
    StripHyphens(CollapseHyphens(SubNonAlnum([i \in 1..Len(name) |-> Lower(name[i])])))

\* ------------------------------------------------------------ CLI inputs
Names == {<<"A", "!">>, <<"a">>}     \* mission names given to "init"

SlugArgs == {<<"a">>, <<"b">>}       \* slugs given to the slug-taking commands

MemKeys == {"k"}                     \* memory keys

\* A JSON value held in memory: a scalar v or a list of JSON values
\* (isinstance(x, list) is the isList field).
Scalar(v) == [isList |-> FALSE, v |-> v, items |-> <<>>]

List(xs) == [isList |-> TRUE, v |-> None, items |-> xs]

MemVals == {Scalar(1), List(<<Scalar(2)>>)}

IdArgs == {1, 2}                     \* mission / run ids given to "complete"

\* plan steps / result payload given on the command line:
\* not given (None), given but empty ([] or {}), given and non-empty
Optional == {"none", "empty", "full"}

NoCmd == [c |-> "", name |-> <<>>, slug |-> <<>>, steps |-> "none", key |-> "",
          val |-> Scalar(None), mid |-> None, rid |-> None, summary |-> "",
          payload |-> "none", argsOk |-> TRUE, jsonOk |-> TRUE, apiKey |-> TRUE]

\* sys.argv of one invocation, with the environment (CLAWDTALK_API_KEY set or not).
\* argsOk = FALSE: a required positional argument is missing.
\* jsonOk = FALSE: a JSON argument does not parse.
InitCmds ==
    {[NoCmd EXCEPT !.c = "init", !.name = n, !.steps = st, !.apiKey = k] :
        n \in Names, st \in Optional, k \in BOOLEAN}

SetupCmds ==
    {[NoCmd EXCEPT !.c = "setup-agent", !.slug = s, !.apiKey = k] :
        s \in SlugArgs, k \in BOOLEAN}

CompleteCmds ==
    {[NoCmd EXCEPT !.c = "complete", !.slug = s, !.mid = m, !.rid = m,
                   !.summary = sm, !.payload = pl] :
        s \in SlugArgs, m \in IdArgs, sm \in {"", "done"}, pl \in Optional}

MemoryCmds ==
    {[NoCmd EXCEPT !.c = c, !.slug = s, !.key = k, !.val = v] :
        c \in {"save-memory", "append-memory"}, s \in SlugArgs, k \in MemKeys,
        v \in MemVals}

StateCmds ==
    {[NoCmd EXCEPT !.c = c, !.slug = s] :
        c \in {"get-state", "remove-state", "get-memory"}, s \in SlugArgs}
    \cup {[NoCmd EXCEPT !.c = "get-memory", !.slug = s, !.key = k] :
        s \in SlugArgs, k \in MemKeys}
    \cup {[NoCmd EXCEPT !.c = "list-state"]}

\* commands that are one request and nothing else
RequestCmds ==
    {[NoCmd EXCEPT !.c = c, !.apiKey = k] :
        c \in {"list-missions", "get-available-phone", "get-connection-id"},
        k \in BOOLEAN}

\* invocations that main() rejects before it does anything
BadCmds ==
    {[NoCmd EXCEPT !.c = c, !.argsOk = FALSE] :
        c \in {"init", "setup-agent", "complete", "save-memory", "get-state"}}
    \cup {[NoCmd EXCEPT !.c = c, !.jsonOk = FALSE] :
        c \in {"init", "setup-agent", "complete", "save-memory"}}
    \cup {[NoCmd EXCEPT !.c = "unknown"]}

Commands ==
    InitCmds \cup SetupCmds \cup CompleteCmds \cup MemoryCmds \cup StateCmds
    \cup RequestCmds \cup BadCmds

\* the invocations that are run at the same time: an init with a plan and a
\* setup-agent for the same mission, and save-memory for that and another slug
WriterCmds ==
    {c \in InitCmds : c.apiKey /\ c.name = <<"A", "!">> /\ c.steps = "full"}
    \cup {c \in SetupCmds : c.apiKey /\ c.slug = <<"a">>}
    \cup {c \in MemoryCmds : c.c = "save-memory" /\ c.val = Scalar(1)}

\* mission names as slugify gets them: every string of at most MaxLen
\* characters that are an upper-case letter, a lower-case letter, a digit, a
\* hyphen, a punctuation mark or a space, and one longer name
SlugAlphabet == {"A", "b", "0", "-", "!", " "}

FindContractors ==
    <<"F", "i", "n", "d", " ", "C", "o", "n", "t", "r", "a", "c", "t", "o", "r", "s", "!">>

SlugInputs ==
    UNION {[1..n -> SlugAlphabet] : n \in 0..MaxLen} \cup {FindContractors}

NamedInitCmds == {[NoCmd EXCEPT !.c = "init", !.name = n] : n \in SlugInputs}

\* the commands that create one resource and print its identifier
ResourceCmds ==
    {[NoCmd EXCEPT !.c = c] : c \in {"create-mission", "create-assistant", "schedule-call"}}
    \cup {[NoCmd EXCEPT !.c = "create-run", !.mid = m] : m \in IdArgs}

\* the memory commands with two keys to tell apart, run one after the other
MemoryKeys == {"k", "j"}

KeyedMemoryCmds ==
    {[NoCmd EXCEPT !.c = c, !.slug = s, !.key = k, !.val = v] :
        c \in {"save-memory", "append-memory"}, s \in SlugArgs, k \in MemoryKeys,
        v \in MemVals}

\* ------------------------------------------------------------------ state
VARIABLES
    fileKind,   \* the state file: "absent", "ok" (parses) or "malformed"
    fileDoc,    \* the document in the file: slug -> entry (EmptyMap unless "ok")
    proc,       \* per process: position, command, locals, observable outcome
    srv,        \* the remote API: what has been created and assigned
    nInv        \* invocations started

vars == <<fileKind, fileDoc, proc, srv, nInv>>

\* datetime.now(): time advances with every invocation that is started
Now == nInv

\* one process before / between invocations
Blank == [pc |-> "idle", cmd |-> NoCmd,
          slug |-> <<>>, existing |-> EmptyMap, loaded |-> EmptyMap,
          upd |-> EmptyMap, after |-> "",
          mission_id |-> None, run_id |-> None, assistant_id |-> None,
          phone_id |-> None, phone_number |-> None, connection_id |-> None,
          log |-> <<>>,        \* requests sent and state writes done, in order
          ret |-> <<>>,        \* what the workflow function returned
          fail |-> {},         \* failure conditions this invocation ran into
          err |-> FALSE,       \* something was printed to stderr
          exit |-> -1]         \* exit status; -1 while there is none

\* before the first invocation
Init ==
    /\ fileKind \in {"absent", "malformed"}
    /\ fileDoc = EmptyMap
    /\ proc = [p \in Procs |-> Blank]
    /\ srv = [missions |-> 0, runs |-> <<>>, assistants |-> 0, assigned |-> {}]
    /\ nInv = 0

\* ----------------------------------------------------------- log entries
\* a request sent by api_request: operation, ids in the path, status and fields
\* of the body; resp: the top-level keys of the response
Req(op, ids, status, fields) ==
    [kind |-> "req", op |-> op, ids |-> ids, status |-> status, keys |-> fields,
     resp |-> {}, outcome |-> "ok"]

\* a save_state; keys: the fields of the slug's entry that were set
Write(op, keys) ==
    [kind |-> "write", op |-> op, ids |-> <<>>, status |-> "", keys |-> keys,
     resp |-> {}, outcome |-> "ok"]

\* ------------------------------------------------------------ process exits
\* main() returns normally
ExitOk(r) == [r EXCEPT !.pc = "exited", !.exit = 0]

\* sys.exit(1) after a message on stderr
ExitError(r, why) ==
    [r EXCEPT !.pc = "exited", !.exit = 1, !.err = TRUE, !.fail = @ \cup {why}]

\* --------------------------------------------------------------- api_request
\* get_api_key(): CLAWDTALK_API_KEY is not set; nothing is sent
NoApiKey(r) == ExitError(r, "missing_api_key")

\* a failed request is sent a second time before the process gives up
ApiFailed_Retry(r, ev, how) ==
    [ExitError(r, how) EXCEPT
        !.log = @ \o <<[ev EXCEPT !.outcome = how], [ev EXCEPT !.outcome = how]>>]

\* urlopen raised HTTPError or URLError: message on stderr, sys.exit(1)
ApiFailed(r, ev, how) ==
    [ExitError(r, how) EXCEPT !.log = Append(@, [ev EXCEPT !.outcome = how])]

\* urlopen returned: the request is on the wire once, the caller continues with okRec
ApiOk(okRec, ev) == [okRec EXCEPT !.log = Append(@, ev)]

\* a failing request rolls the entry of the mission back
FileAtExit_Rollback(doc, r) == DelKey(doc, r.slug)

\* the state file once sys.exit(1) has ended the process: nothing is undone
FileAtExit(doc, r) == doc

\* One call of api_request by process p.  okRec: the process once the caller has
\* handled the response; okSrv: the remote API after it served the request.
ApiRequest(p, ev, okRec, okSrv) ==
    LET r == proc[p] IN
    /\ fileKind' = fileKind
    /\ nInv' = nInv
    /\ \/ /\ ~r.cmd.apiKey
          /\ proc' = [proc EXCEPT ![p] = NoApiKey(r)]
          /\ srv' = srv
          /\ fileDoc' = FileAtExit(fileDoc, r)
       \/ /\ r.cmd.apiKey
          /\ \E how \in {"http_error", "transport_error"} :
                 proc' = [proc EXCEPT ![p] = ApiFailed(r, ev, how)]
          /\ srv' = srv
          /\ fileDoc' = FileAtExit(fileDoc, r)
       \/ /\ r.cmd.apiKey
          /\ proc' = [proc EXCEPT ![p] = ApiOk(okRec, ev)]
          /\ srv' = okSrv
          /\ fileDoc' = fileDoc

\* ---------------------------------------------------- response unwrapping
\* result.get(key, result.get("data", result))
Unwrap(result, key) ==
    IF key \in DOMAIN result THEN result[key]
    ELSE IF "data" \in DOMAIN result THEN result["data"]
    ELSE result

\* a or b
Or(a, b) == IF Truthy(a) THEN a ELSE b

\* create_mission: mission = result.get("mission", result.get("data", result));
\* mission.get("id") or mission.get("mission_id")
MissionIdOf(result) ==
    LET mission == Unwrap(result, "mission")
    IN  Or(Get(mission, "id"), Get(mission, "mission_id"))

\* create_run: run = result.get("data", result); run.get("run_id") or run.get("id")
RunIdOf(result) ==
    LET run == IF "data" \in DOMAIN result THEN result["data"] ELSE result
    IN  Or(Get(run, "run_id"), Get(run, "id"))

\* create_assistant: assistant = result.get("assistant", result); assistant.get("id")
AssistantIdOf(result) ==
    LET assistant == IF "assistant" \in DOMAIN result THEN result["assistant"]
                     ELSE result
    IN  Get(assistant, "id")

\* schedule_call: event = result.get("event", result); event.get("id")
EventIdOf(result) ==
    LET event == IF "event" \in DOMAIN result THEN result["event"] ELSE result
    IN  Get(event, "id")

\* the three ways the remote API nests a payload: under the key of the
\* resource, under "data", or not at all
Envelopes(key, payload) ==
    {[k \in {key} |-> payload], [data |-> payload], payload}

\* the envelopes in which the remote API returns a created mission / run / assistant
MissionResponses(id) ==
    {[mission |-> [id |-> id]], [data |-> [id |-> id]], [id |-> id],
     [data |-> [mission_id |-> id]]}

RunResponses(id) ==
    {[data |-> [run_id |-> id]], [run_id |-> id], [data |-> [id |-> id]]}

AssistantResponses(id) ==
    {[assistant |-> [id |-> id]], [id |-> id]}

\* ------------------------------------------------------------- state file
\* save_state merges the document into the file slug by slug
SaveState_Merge(doc) ==
    /\ fileKind' = "ok"
    /\ fileDoc' = [s \in (DOMAIN fileDoc) \cup (DOMAIN doc) |->
                        IF s \in DOMAIN doc THEN doc[s] ELSE fileDoc[s]]

\* save_state(doc): the whole file is overwritten
SaveState(doc) ==
    /\ fileKind' = "ok"
    /\ fileDoc' = doc

\* the entry is replaced by the updates instead of being merged with them
UpdatedDoc_Replace(doc, slug, updates) == SetKey(doc, slug, updates)

\* what update_mission_state writes, given the document it loaded
UpdatedDoc(doc, slug, updates) ==
    SetKey(doc, slug, DictUpdate(GetEntry(doc, slug), updates))

\* call update_mission_state(slug, updates), then continue at position after
CallUpdate(r, updates, after) ==
    [r EXCEPT !.pc = "ums_load", !.upd = updates, !.after = after]

\* json.loads on a malformed state file: JSONDecodeError, caught by main()
LoadFails(p) ==
    /\ fileKind = "malformed"
    /\ proc' = [proc EXCEPT ![p] = ExitError(proc[p], "malformed_state_file")]
    /\ UNCHANGED <<fileKind, fileDoc, srv, nInv>>

\* update_mission_state, first half: state = load_state()
UmsLoad(p) ==
    /\ proc[p].pc = "ums_load"
    /\ \/ LoadFails(p)
       \/ /\ fileKind # "malformed"
          /\ proc' = [proc EXCEPT ![p] = [@ EXCEPT !.pc = "ums_save", !.loaded = fileDoc]]
          /\ UNCHANGED <<fileKind, fileDoc, srv, nInv>>

\* update_mission_state, second half: merge and save_state(state)
UmsSave(p) ==
    LET r == proc[p]
        w == [r EXCEPT !.log = Append(@, Write("update_mission_state", DOMAIN r.upd))]
    IN  /\ r.pc = "ums_save"
        /\ SaveState(UpdatedDoc(r.loaded, r.slug, r.upd))
        /\ proc' = [proc EXCEPT ![p] =
                        IF r.after = "return" THEN ExitOk(w)
                        ELSE [w EXCEPT !.pc = r.after]]
        /\ UNCHANGED <<srv, nInv>>

\* ------------------------------------------------------------------ main
\* where main() sends a well-formed invocation
EntryPoint(c) ==
    CASE c.c = "init"                -> "init_get_state"
      [] c.c = "setup-agent"         -> "setup_get_state"
      [] c.c = "complete"            -> "complete_update_run"
      [] c.c \in {"save-memory", "append-memory"} -> "mem_load"
      [] c.c \in {"get-state", "get-memory", "list-state"} -> "read_state"
      [] c.c = "remove-state"        -> "rms_load"
      [] c.c = "list-missions"       -> "list_missions"
      [] c.c = "create-mission"      -> "cmd_create_mission"
      [] c.c = "create-run"          -> "cmd_create_run"
      [] c.c = "create-assistant"    -> "cmd_create_assistant"
      [] c.c = "schedule-call"       -> "cmd_schedule_call"
      [] c.c = "get-available-phone" -> "get_phone"
      [] c.c = "get-connection-id"   -> "get_connection_id"

\* main(): a new process is started with command line c and gets as far as
\* its first request or state file access
Start(p, c) ==
    LET r == [Blank EXCEPT !.cmd = c,
                           !.slug = IF c.c = "init" THEN slugify(c.name) ELSE c.slug]
    IN  /\ proc[p].pc \in {"idle", "exited"}
        /\ nInv < MaxInv
        /\ nInv' = nInv + 1
        /\ proc' = [proc EXCEPT ![p] =
                CASE c.c = "unknown" -> ExitError(r, "unknown_command")
                  [] c.c # "unknown" /\ ~c.argsOk -> ExitError(r, "missing_argument")
                  [] c.c # "unknown" /\ c.argsOk /\ ~c.jsonOk -> ExitError(r, "malformed_json")
                  [] OTHER -> [r EXCEPT !.pc = EntryPoint(c)]]
        /\ UNCHANGED <<fileKind, fileDoc, srv>>

\* ----------------------------------------------------------- init_mission
\* a cached mission is enough to resume
InitResumes_MissionOnly(existing) == Truthy(Get(existing, "mission_id"))

\* the resume test reads the id under the wrong key
InitResumes_WrongKey(existing) ==
    Truthy(Get(existing, "id")) /\ Truthy(Get(existing, "run_id"))

\* existing.get("mission_id") and existing.get("run_id")
InitResumes(existing) ==
    Truthy(Get(existing, "mission_id")) /\ Truthy(Get(existing, "run_id"))

\* the plan test is "is not None" instead of truthiness
PlanGiven_NotNone(steps) == steps # "none"

\* if plan_steps:
PlanGiven(steps) == steps = "full"

\* update_run: the fields put into the PATCH body
UpdateRunData(status, summary, payload) ==
    (IF status # "" THEN {"status"} ELSE {})
    \cup (IF summary # "" THEN {"result_summary"} ELSE {})
    \cup (IF payload = "full" THEN {"result_payload"} ELSE {})

\* existing = get_mission_state(slug); resume if both ids are there
InitGetState(p) ==
    LET r == proc[p]
        existing == GetEntry(fileDoc, r.slug)
    IN  /\ r.pc = "init_get_state"
        /\ \/ LoadFails(p)
           \/ /\ fileKind # "malformed"
              /\ proc' = [proc EXCEPT ![p] =
                    IF InitResumes(existing)
                    THEN ExitOk([r EXCEPT !.existing = existing,
                                          !.ret = <<Get(existing, "mission_id"), Get(existing, "run_id")>>])
                    ELSE [r EXCEPT !.existing = existing, !.pc = "create_mission"]]
              /\ UNCHANGED <<fileKind, fileDoc, srv, nInv>>

\* mission_id = create_mission(name, instructions); then update_mission_state
CreateMission(p) ==
    LET r == proc[p]
        id == srv.missions + 1
    IN  /\ r.pc = "create_mission"
        /\ \E result \in MissionResponses(id) :
            LET mission_id == MissionIdOf(result)
            IN  ApiRequest(p, Req("create_mission", <<>>, "", {}),
                    CallUpdate([r EXCEPT !.mission_id = mission_id],
                               [mission_name |-> r.cmd.name, mission_id |-> mission_id,
                                created_at |-> Now],
                               "create_run"),
                    [srv EXCEPT !.missions = id])

\* run_id = create_run(mission_id, ...); then update_mission_state
CreateRun(p) ==
    LET r == proc[p]
        id == Len(srv.runs) + 1
    IN  /\ r.pc = "create_run"
        /\ \E result \in RunResponses(id) :
            LET run_id == RunIdOf(result)
            IN  ApiRequest(p, Req("create_run", <<r.mission_id>>, "", {}),
                    CallUpdate([r EXCEPT !.run_id = run_id], [run_id |-> run_id],
                               IF PlanGiven(r.cmd.steps) THEN "create_plan"
                               ELSE "init_update_run"),
                    [srv EXCEPT !.runs = Append(@, r.mission_id)])

\* create_plan(mission_id, run_id, plan_steps)
CreatePlan(p) ==
    LET r == proc[p]
    IN  /\ r.pc = "create_plan"
        /\ ApiRequest(p, Req("create_plan", <<r.mission_id, r.run_id>>, "", {"steps"}),
                [r EXCEPT !.pc = "init_update_run"], srv)

\* update_run(mission_id, run_id, status="running"); return mission_id, run_id
InitUpdateRun(p) ==
    LET r == proc[p]
    IN  /\ r.pc = "init_update_run"
        /\ ApiRequest(p, Req("update_run", <<r.mission_id, r.run_id>>, "running",
                             UpdateRunData("running", "", "none")),
                ExitOk([r EXCEPT !.ret = <<r.mission_id, r.run_id>>]), srv)

\* ------------------------------------------------------ setup_voice_agent
\* a cached assistant is enough to resume
SetupResumes_AssistantOnly(existing) == Truthy(Get(existing, "assistant_id"))

\* the resume test reads the phone under the wrong key
SetupResumes_WrongKey(existing) ==
    Truthy(Get(existing, "assistant_id")) /\ Truthy(Get(existing, "phone_number"))

\* existing.get("assistant_id") and existing.get("agent_phone")
SetupResumes(existing) ==
    Truthy(Get(existing, "assistant_id")) /\ Truthy(Get(existing, "agent_phone"))

\* the phone the remote API has to offer
ThePhone == [id |-> 11, phone_number |-> 21]

\* get_available_phone_number: (id, phone_number) or (None, None)
AvailablePhone(result) ==
    IF "phone" \in DOMAIN result
    THEN <<result["phone"]["id"], result["phone"]["phone_number"]>>
    ELSE <<None, None>>

\* the early return for a missing phone is left out
SetupAborts_Never(phone_id) == FALSE

\* if not phone_id: return assistant_id, None
SetupAborts(phone_id) == ~Truthy(phone_id)

\* mission_id = existing.get("mission_id"); run_id = existing.get("run_id");
\* if mission_id and run_id:
LinkIdsKnown(existing) ==
    Truthy(Get(existing, "mission_id")) /\ Truthy(Get(existing, "run_id"))

SetupGetState(p) ==
    LET r == proc[p]
        existing == GetEntry(fileDoc, r.slug)
    IN  /\ r.pc = "setup_get_state"
        /\ \/ LoadFails(p)
           \/ /\ fileKind # "malformed"
              /\ proc' = [proc EXCEPT ![p] =
                    IF SetupResumes(existing)
                    THEN ExitOk([r EXCEPT !.existing = existing,
                                          !.ret = <<Get(existing, "assistant_id"), Get(existing, "agent_phone")>>])
                    ELSE [r EXCEPT !.existing = existing, !.pc = "create_assistant"]]
              /\ UNCHANGED <<fileKind, fileDoc, srv, nInv>>

\* assistant_id = create_assistant(...); then update_mission_state
CreateAssistant(p) ==
    LET r == proc[p]
        id == srv.assistants + 1
    IN  /\ r.pc = "create_assistant"
        /\ \E result \in AssistantResponses(id) :
            LET assistant_id == AssistantIdOf(result)
            IN  ApiRequest(p, Req("create_assistant", <<>>, "", {}),
                    CallUpdate([r EXCEPT !.assistant_id = assistant_id],
                               [assistant_id |-> assistant_id],
                               IF LinkIdsKnown(r.existing) THEN "link_agent" ELSE "get_phone"),
                    [srv EXCEPT !.assistants = id])

\* link_telnyx_agent(mission_id, run_id, assistant_id), ids as read at the start
LinkAgent(p) ==
    LET r == proc[p]
    IN  /\ r.pc = "link_agent"
        /\ ApiRequest(p, Req("link_telnyx_agent",
                             <<r.existing["mission_id"], r.existing["run_id"], r.assistant_id>>,
                             "", {}),
                [r EXCEPT !.pc = "get_phone"], srv)

\* get_available_phone_number(), in setup_voice_agent and as the command
\* get-available-phone
GetPhone(p) ==
    LET r == proc[p]
    IN  /\ r.pc = "get_phone"
        /\ \E result \in {EmptyMap, [phone |-> ThePhone]} :
            LET phone == AvailablePhone(result)
                got == [r EXCEPT !.phone_id = phone[1], !.phone_number = phone[2],
                                 !.err = @ \/ ~Truthy(phone[1]),
                                 !.fail = IF Truthy(phone[1]) THEN @ ELSE @ \cup {"no_phone"}]
            IN  ApiRequest(p, [Req("get_available_phone_number", <<>>, "", {})
                                  EXCEPT !.resp = DOMAIN result],
                    IF r.cmd.c = "get-available-phone" THEN ExitOk([got EXCEPT !.ret = phone])
                    ELSE IF SetupAborts(phone[1])
                         THEN ExitOk([got EXCEPT !.ret = <<r.assistant_id, None>>])
                         ELSE [got EXCEPT !.pc = "get_connection_id"],
                    srv)

\* get_assistant_connection_id(), in setup_voice_agent and as the command
\* get-connection-id
GetConnectionId(p) ==
    LET r == proc[p]
    IN  /\ r.pc = "get_connection_id"
        /\ \E result \in {EmptyMap, [connection_id |-> 31]} :
            LET conn_id == Get(result, "connection_id")
                got == [r EXCEPT !.connection_id = conn_id,
                                 !.err = @ \/ ~Truthy(conn_id),
                                 !.fail = IF Truthy(conn_id) THEN @
                                          ELSE @ \cup {"no_connection_id"}]
            IN  ApiRequest(p, [Req("get_assistant_connection_id", <<r.assistant_id>>, "", {})
                                  EXCEPT !.resp = DOMAIN result],
                    IF r.cmd.c = "get-connection-id" THEN ExitOk(got)
                    ELSE IF Truthy(conn_id)
                         THEN [got EXCEPT !.pc = "assign_phone"]
                         ELSE ExitOk([got EXCEPT !.ret = <<r.assistant_id, r.phone_number>>]),
                    srv)

\* assign_phone_number(phone_id, connection_id, "voice"); then
\* update_mission_state and return assistant_id, phone_number
AssignPhone(p) ==
    LET r == proc[p]
    IN  /\ r.pc = "assign_phone"
        /\ ApiRequest(p, Req("assign_phone_number", <<r.phone_id, r.connection_id>>, "", {}),
                CallUpdate([r EXCEPT !.ret = <<r.assistant_id, r.phone_number>>],
                           [agent_phone |-> r.phone_number, phone_number_id |-> r.phone_id],
                           "return"),
                [srv EXCEPT !.assigned = @ \cup {r.phone_id}])

\* -------------------------------------------------------- complete_mission
\* update_run(mission_id, run_id, status="succeeded", result_summary, result_payload)
CompleteUpdateRun(p) ==
    LET r == proc[p]
    IN  /\ r.pc = "complete_update_run"
        /\ ApiRequest(p, Req("update_run", <<r.cmd.mid, r.cmd.rid>>, "succeeded",
                             UpdateRunData("succeeded", r.cmd.summary, r.cmd.payload)),
                [r EXCEPT !.pc = "rms_load"], srv)

\* the removal keeps the memory of the mission
RemovedDoc_KeepsMemory(doc, slug) ==
    IF slug \in DOMAIN doc /\ "memory" \in DOMAIN doc[slug]
    THEN SetKey(doc, slug, [memory |-> doc[slug]["memory"]])
    ELSE DelKey(doc, slug)

\* what remove_mission_state writes, given the document it loaded
RemovedDoc(doc, slug) == DelKey(doc, slug)

\* the document is saved whether or not it holds the slug
SlugInState_Always(doc, slug) == TRUE

\* if slug in state:
SlugInState(doc, slug) == slug \in DOMAIN doc

\* remove_mission_state, first half: state = load_state(); if slug in state
\* (called by complete_mission and by the command remove-state)
RmsLoad(p) ==
    LET r == proc[p]
    IN  /\ r.pc = "rms_load"
        /\ \/ LoadFails(p)
           \/ /\ fileKind # "malformed"
              /\ proc' = [proc EXCEPT ![p] =
                    IF SlugInState(fileDoc, r.slug)
                    THEN [r EXCEPT !.pc = "rms_save", !.loaded = fileDoc]
                    ELSE ExitOk(r)]
              /\ UNCHANGED <<fileKind, fileDoc, srv, nInv>>

\* remove_mission_state, second half: del state[slug]; save_state(state)
RmsSave(p) ==
    LET r == proc[p]
    IN  /\ r.pc = "rms_save"
        /\ SaveState(RemovedDoc(r.loaded, r.slug))
        /\ proc' = [proc EXCEPT ![p] =
                ExitOk([r EXCEPT !.log = Append(@, Write("remove_mission_state", {}))])]
        /\ UNCHANGED <<srv, nInv>>

\* ------------------------------------------------------------------ memory
\* state[slug].get("memory", {}) after the two "not in" initialisations
MemoryOf(entry) == IF "memory" \in DOMAIN entry THEN entry["memory"] ELSE EmptyMap

\* what save_memory writes, given the document it loaded
SavedMemoryDoc(doc, slug, key, value, now) ==
    LET entry == GetEntry(doc, slug)
        memory == SetKey(MemoryOf(entry), key, value)
    IN  SetKey(doc, slug, SetKey(SetKey(entry, "memory", memory), "last_updated", now))

\* a value that is not a list is dropped instead of becoming the first item
AppendedMemoryDoc_NoCoerce(doc, slug, key, item, now) ==
    LET entry == GetEntry(doc, slug)
        old == MemoryOf(entry)
        cur == IF key \in DOMAIN old THEN old[key] ELSE List(<<>>)
        lst == IF cur.isList THEN cur.items ELSE <<>>
        memory == SetKey(old, key, List(Append(lst, item)))
    IN  SetKey(doc, slug, SetKey(SetKey(entry, "memory", memory), "last_updated", now))

\* what append_memory writes, given the document it loaded
AppendedMemoryDoc(doc, slug, key, item, now) ==
    LET entry == GetEntry(doc, slug)
        old == MemoryOf(entry)
        cur == IF key \in DOMAIN old THEN old[key] ELSE List(<<>>)
        lst == IF cur.isList THEN cur.items ELSE <<cur>>
        memory == SetKey(old, key, List(Append(lst, item)))
    IN  SetKey(doc, slug, SetKey(SetKey(entry, "memory", memory), "last_updated", now))

\* save_memory / append_memory, first half: state = load_state(), and the
\* timestamp that goes into last_updated
MemLoad(p) ==
    /\ proc[p].pc = "mem_load"
    /\ \/ LoadFails(p)
       \/ /\ fileKind # "malformed"
          /\ proc' = [proc EXCEPT ![p] = [@ EXCEPT !.pc = "mem_save", !.loaded = fileDoc,
                                                   !.upd = [last_updated |-> Now]]]
          /\ UNCHANGED <<fileKind, fileDoc, srv, nInv>>

\* save_memory / append_memory, second half: modify and save_state(state)
MemSave(p) ==
    LET r == proc[p]
        c == r.cmd
    IN  /\ r.pc = "mem_save"
        /\ SaveState(IF c.c = "save-memory"
                     THEN SavedMemoryDoc(r.loaded, r.slug, c.key, c.val, r.upd["last_updated"])
                     ELSE AppendedMemoryDoc(r.loaded, r.slug, c.key, c.val, r.upd["last_updated"]))
        /\ proc' = [proc EXCEPT ![p] =
                ExitOk([r EXCEPT !.log = Append(@, Write(c.c, {"memory", "last_updated"}))])]
        /\ UNCHANGED <<srv, nInv>>

\* --------------------------------------------------- read-only commands
\* a slug that is looked up gets an empty entry, which is saved
FileAfterRead_SetDefault(doc, slug) ==
    IF slug \in DOMAIN doc THEN doc ELSE SetKey(doc, slug, EmptyMap)

\* the state file after get_mission_state(slug): state.get(slug, {}) stores
\* nothing and nothing is saved
FileAfterRead(doc, slug) == doc

\* get_memory(slug, key): the memory, or memory.get(key) if a key is given
GetMemory(doc, slug, key) ==
    LET memory == MemoryOf(GetEntry(doc, slug))
    IN  IF key # "" THEN Get(memory, key) ELSE memory

\* get-state, get-memory, list-state: load_state() and print
ReadState(p) ==
    LET r == proc[p]
        ret == CASE r.cmd.c = "get-state"  -> <<GetEntry(fileDoc, r.slug)>>
                 [] r.cmd.c = "get-memory" -> <<GetMemory(fileDoc, r.slug, r.cmd.key)>>
                 [] OTHER                  -> <<>>
    IN  /\ r.pc = "read_state"
        /\ \/ LoadFails(p)
           \/ /\ fileKind # "malformed"
              /\ proc' = [proc EXCEPT ![p] = ExitOk([r EXCEPT !.ret = ret])]
              /\ fileDoc' = FileAfterRead(fileDoc, r.slug)
              /\ UNCHANGED <<fileKind, srv, nInv>>

\* list-missions, standing for the commands that send one request and print
ListMissions(p) ==
    LET r == proc[p]
    IN  /\ r.pc = "list_missions"
        /\ ApiRequest(p, Req("list_missions", <<>>, "", {}), ExitOk(r), srv)

\* ------------------------------------------- resource-creating commands
\* the event the remote API creates for a scheduled call
TheEvent == [id |-> 41]

\* command create-mission: create_mission(name, instructions)
CmdCreateMission(p) ==
    LET r == proc[p]
        id == srv.missions + 1
    IN  /\ r.pc = "cmd_create_mission"
        /\ \E result \in Envelopes("mission", [id |-> id]) :
            ApiRequest(p, [Req("create_mission", <<>>, "", {}) EXCEPT !.resp = DOMAIN result],
                ExitOk([r EXCEPT !.mission_id = id, !.ret = <<MissionIdOf(result)>>]),
                [srv EXCEPT !.missions = id])

\* command create-run: create_run(mission_id, input)
CmdCreateRun(p) ==
    LET r == proc[p]
        id == Len(srv.runs) + 1
    IN  /\ r.pc = "cmd_create_run"
        /\ \E result \in Envelopes("run", [run_id |-> id]) :
            ApiRequest(p, [Req("create_run", <<r.cmd.mid>>, "", {}) EXCEPT !.resp = DOMAIN result],
                ExitOk([r EXCEPT !.run_id = id, !.ret = <<RunIdOf(result)>>]),
                [srv EXCEPT !.runs = Append(@, r.cmd.mid)])

\* command create-assistant: create_assistant(name, instructions, greeting, ...)
CmdCreateAssistant(p) ==
    LET r == proc[p]
        id == srv.assistants + 1
    IN  /\ r.pc = "cmd_create_assistant"
        /\ \E result \in Envelopes("assistant", [id |-> id]) :
            ApiRequest(p, [Req("create_assistant", <<>>, "", {}) EXCEPT !.resp = DOMAIN result],
                ExitOk([r EXCEPT !.assistant_id = id, !.ret = <<AssistantIdOf(result)>>]),
                [srv EXCEPT !.assistants = id])

\* command schedule-call: schedule_call(assistant_id, to, from, time, ...)
CmdScheduleCall(p) ==
    LET r == proc[p]
    IN  /\ r.pc = "cmd_schedule_call"
        /\ \E result \in Envelopes("event", TheEvent) :
            ApiRequest(p, [Req("schedule_call", <<>>, "", {}) EXCEPT !.resp = DOMAIN result],
                ExitOk([r EXCEPT !.ret = <<EventIdOf(result)>>]),
                srv)

\* ------------------------------------------------------------ specification
\* one invocation after the other: every invocation is run by process 1
Next ==
    \/ \E c \in Commands : Start(1, c)
    \/ InitGetState(1)
    \/ CreateMission(1)
    \/ CreateRun(1)
    \/ CreatePlan(1)
    \/ InitUpdateRun(1)
    \/ SetupGetState(1)
    \/ CreateAssistant(1)
    \/ LinkAgent(1)
    \/ GetPhone(1)
    \/ GetConnectionId(1)
    \/ AssignPhone(1)
    \/ UmsLoad(1)
    \/ UmsSave(1)
    \/ RmsLoad(1)
    \/ RmsSave(1)
    \/ MemLoad(1)
    \/ MemSave(1)
    \/ CompleteUpdateRun(1)
    \/ ReadState(1)
    \/ ListMissions(1)

Spec == Init /\ [][Next]_vars

\* invocations that write the state file, run by two processes that may overlap
NextConc ==
    \/ \E p \in Procs, c \in WriterCmds : nInv < MaxConc /\ Start(p, c)
    \/ \E p \in Procs : InitGetState(p)
    \/ \E p \in Procs : CreateMission(p)
    \/ \E p \in Procs : CreateRun(p)
    \/ \E p \in Procs : CreatePlan(p)
    \/ \E p \in Procs : InitUpdateRun(p)
    \/ \E p \in Procs : SetupGetState(p)
    \/ \E p \in Procs : CreateAssistant(p)
    \/ \E p \in Procs : LinkAgent(p)
    \/ \E p \in Procs : GetPhone(p)
    \/ \E p \in Procs : GetConnectionId(p)
    \/ \E p \in Procs : AssignPhone(p)
    \/ \E p \in Procs : UmsLoad(p)
    \/ \E p \in Procs : UmsSave(p)
    \/ \E p \in Procs : MemLoad(p)
    \/ \E p \in Procs : MemSave(p)

SpecConc == Init /\ [][NextConc]_vars

\* save-memory and append-memory invocations on two keys, one after the other
NextMem ==
    \/ \E c \in KeyedMemoryCmds : Start(1, c)
    \/ MemLoad(1)
    \/ MemSave(1)

SpecMem == Init /\ [][NextMem]_vars

\* init invocations that get as far as slug = slugify(name)
NextSlug == \E c \in NamedInitCmds : Start(1, c)

SpecSlug == Init /\ [][NextSlug]_vars

\* the resource-creating commands, one after the other
NextEnv ==
    \/ \E c \in ResourceCmds : Start(1, c)
    \/ CmdCreateMission(1)
    \/ CmdCreateRun(1)
    \/ CmdCreateAssistant(1)
    \/ CmdScheduleCall(1)

SpecEnv == Init /\ [][NextEnv]_vars

TypeOK ==
    /\ fileKind \in {"absent", "ok", "malformed"}
    /\ nInv \in 0..MaxInv
    /\ \A p \in Procs : proc[p].exit \in {-1, 0, 1}
    /\ \A p \in Procs :
        proc[p].cmd \in Commands \cup KeyedMemoryCmds \cup NamedInitCmds
                        \cup ResourceCmds \cup {NoCmd}

\* ================================================================ properties
\* helpers of the properties

\* an optional field of an entry of a document: <<v>> or <<>>
Field(doc, slug, k) ==
    IF slug \in DOMAIN doc /\ k \in DOMAIN doc[slug] THEN <<doc[slug][k]>> ELSE <<>>

\* the entry of slug holds a non-empty value under k
Holds(doc, slug, k) ==
    /\ slug \in DOMAIN doc
    /\ k \in DOMAIN doc[slug]
    /\ doc[slug][k] # None

\* the sequence of (kind, operation) of a log
Ops(log) == [i \in 1..Len(log) |-> <<log[i].kind, log[i].op>>]

IsPrefix(a, b) == Len(a) <= Len(b) /\ SubSeq(b, 1, Len(a)) = a

Requests(log) == {i \in 1..Len(log) : log[i].kind = "req"}

Writes(log) == {i \in 1..Len(log) : log[i].kind = "write"}

Failures(log) == {i \in 1..Len(log) : log[i].outcome # "ok"}

\* the invocation of p has ended
Exited(p) == proc[p].pc = "exited"

\* ---------------------------------------------------------------------
\* C1: init_mission is an idempotent resume.  Whenever the state file's entry
\* for slugify(name) holds a non-empty mission_id and a non-empty run_id,
\* init_mission returns exactly that pair, sends no request and leaves the
\* state file as it is; and after any successful init the entry holds the
\* returned pair, so that a second init with the same name returns it again.
C1_ResumeStep(p) ==
    LET slug == slugify(proc[p].cmd.name)
    IN  (/\ proc[p].pc = "init_get_state"
         /\ fileKind = "ok"
         /\ Holds(fileDoc, slug, "mission_id")
         /\ Holds(fileDoc, slug, "run_id"))
        => /\ proc'[p].pc = "exited"
           /\ proc'[p].exit = 0
           /\ proc'[p].ret = <<fileDoc[slug]["mission_id"], fileDoc[slug]["run_id"]>>
           /\ proc'[p].log = <<>>
           /\ UNCHANGED <<fileKind, fileDoc, srv>>

C1_AfterInit(p) ==
    LET r == proc[p]
        slug == r.slug
    IN  (Exited(p) /\ r.cmd.c = "init" /\ r.exit = 0)
        => /\ slug = slugify(r.cmd.name)
           /\ Len(r.ret) = 2
           /\ Holds(fileDoc, slug, "mission_id")
           /\ Holds(fileDoc, slug, "run_id")
           /\ r.ret = <<fileDoc[slug]["mission_id"], fileDoc[slug]["run_id"]>>

C1_InitResume ==
    [][\A p \in Procs : C1_ResumeStep(p) /\ C1_AfterInit(p)']_vars

\* an init that resumed: it ended well without a single request or write
C1_Witness ==
    \E p \in Procs :
        /\ Exited(p) /\ proc[p].cmd.c = "init" /\ proc[p].exit = 0
        /\ proc[p].log = <<>>
        /\ proc[p].ret = <<1, 1>>
        /\ proc[p].cmd.name # fileDoc[proc[p].slug]["mission_name"]

\* ---------------------------------------------------------------------
\* C2: an init_mission that does not resume and in which no request fails does
\* its steps in this order: create-mission request, state write of mission_id
\* (with mission_name and created_at), create-run request against that mission,
\* state write of run_id, create-plan request iff a non-empty step list was
\* given, run update to "running".  At every moment the steps done so far are
\* a prefix of that order, mission_id is in the state file when the run is
\* requested and run_id is in it when the run is marked running.
C2_Order(steps) ==
    <<  <<"req", "create_mission">>, <<"write", "update_mission_state">>,
        <<"req", "create_run">>, <<"write", "update_mission_state">> >>
    \o (IF steps = "full" THEN << <<"req", "create_plan">> >> ELSE <<>>)
    \o << <<"req", "update_run">> >>

C2_InitOrder ==
    \A p \in Procs :
        LET r == proc[p]
            log == r.log
        IN  r.cmd.c = "init" =>
            /\ IsPrefix(Ops(log), C2_Order(r.cmd.steps))
            /\ (Exited(p) /\ r.exit = 0 /\ log # <<>>) => Ops(log) = C2_Order(r.cmd.steps)
            /\ Len(log) >= 2 =>
                /\ log[2].keys = {"mission_name", "mission_id", "created_at"}
                /\ Field(fileDoc, r.slug, "mission_id") = <<r.mission_id>>
                /\ Field(fileDoc, r.slug, "mission_name") = <<r.cmd.name>>
                /\ r.mission_id # None
            /\ Len(log) >= 3 => log[3].ids = <<r.mission_id>>
            /\ Len(log) >= 4 =>
                /\ log[4].keys = {"run_id"}
                /\ Field(fileDoc, r.slug, "run_id") = <<r.run_id>>
                /\ r.run_id # None
            /\ \A i \in 5..Len(log) : log[i].ids = <<r.mission_id, r.run_id>>
            /\ (Len(log) >= 1 /\ log[Len(log)].op = "update_run")
                    => log[Len(log)].status = "running"

\* an init with a plan that ran to its end
C2_Witness ==
    \E p \in Procs :
        /\ Exited(p) /\ proc[p].cmd.c = "init" /\ proc[p].exit = 0
        /\ Len(proc[p].log) = 6
        /\ proc[p].cmd.steps = "full"

\* ---------------------------------------------------------------------
\* C3: the state file has no lock, so a lost update is reachable.  When two
\* invocations each load, modify and save the state file and both loaded the
\* same document, the file is exactly the document written by the one that
\* saved later, and what the earlier saver changed (and the later one did not
\* write itself) is as it was in the document both loaded.
EntryKeys ==
    {"mission_id", "run_id", "mission_name", "created_at", "assistant_id",
     "agent_phone", "phone_number_id", "last_updated", "memory"}

\* p has loaded, modified and saved, and is not in the middle of doing it again
C3_HasSaved(p) ==
    /\ Writes(proc[p].log) # {}
    /\ proc[p].pc \notin {"ums_load", "ums_save", "mem_save"}

\* the document the last save of p wrote, from what p loaded and was asked to do
C3_Written(p) ==
    LET r == proc[p]
        w == r.log[CHOOSE i \in Writes(r.log) : \A j \in Writes(r.log) : j <= i]
    IN  CASE w.op = "update_mission_state" -> UpdatedDoc(r.loaded, r.slug, r.upd)
          [] w.op = "save-memory" ->
                SavedMemoryDoc(r.loaded, r.slug, r.cmd.key, r.cmd.val, r.upd["last_updated"])

\* (slug, field) that the save of p changed with respect to what it loaded
C3_Changed(p) ==
    {sk \in SlugArgs \X EntryKeys :
        Field(C3_Written(p), sk[1], sk[2]) # Field(proc[p].loaded, sk[1], sk[2])}

\* the file is what later wrote and the changes of earlier are not in it
C3_Lost(earlier, later) ==
    /\ fileDoc = C3_Written(later)
    /\ \A sk \in C3_Changed(earlier) \ C3_Changed(later) :
            Field(fileDoc, sk[1], sk[2]) = Field(proc[earlier].loaded, sk[1], sk[2])

C3_LostUpdate ==
    \A p \in Procs, q \in Procs :
        (/\ p # q
         /\ C3_HasSaved(p) /\ C3_HasSaved(q)
         /\ proc[p].loaded = proc[q].loaded)
        => (C3_Lost(p, q) \/ C3_Lost(q, p))

\* two invocations loaded the same document, both changed it, and the change
\* of one of them is gone
C3_Witness ==
    \E p \in Procs, q \in Procs :
        /\ p # q
        /\ C3_HasSaved(p) /\ C3_HasSaved(q)
        /\ proc[p].loaded = proc[q].loaded
        /\ C3_Lost(p, q)
        /\ C3_Changed(p) \ C3_Changed(q) # {}
        /\ proc[p].slug = proc[q].slug
        /\ proc[p].cmd.c = "setup-agent" /\ proc[q].cmd.c = "init"

\* ---------------------------------------------------------------------
\* C4: complete_mission first sends the run update with status "succeeded"
\* (with the summary and the result payload when they are given and not
\* empty) and removes the slug's entry only after that request succeeded;
\* after a successful complete_mission nothing of the entry is left in the
\* state file and the entries of the other slugs are as they were.
C4_Sent(r) ==
    /\ Len(r.log) >= 1
    /\ r.log[1].kind = "req" /\ r.log[1].op = "update_run"
    /\ r.log[1].outcome = "ok"
    /\ r.log[1].status = "succeeded"
    /\ r.log[1].ids = <<r.cmd.mid, r.cmd.rid>>
    /\ "status" \in r.log[1].keys
    /\ r.cmd.summary # "" => "result_summary" \in r.log[1].keys
    /\ r.cmd.payload = "full" => "result_payload" \in r.log[1].keys
    /\ r.cmd.payload = "none" => "result_payload" \notin r.log[1].keys

C4_Log(p) ==
    LET r == proc[p]
    IN  r.cmd.c = "complete" =>
        /\ r.pc \in {"rms_load", "rms_save"} => (C4_Sent(r) /\ Len(r.log) = 1)
        /\ Writes(r.log) # {} =>
                (C4_Sent(r) /\ Ops(r.log)[2] = <<"write", "remove_mission_state">>)
        /\ (Exited(p) /\ r.exit = 0) =>
                (C4_Sent(r) /\ r.cmd.slug \notin DOMAIN fileDoc)

C4_Step(p) ==
    LET r == proc[p]
    IN  r.cmd.c = "complete" =>
        /\ r.pc = "rms_save" =>
            /\ proc'[p].pc = "exited" /\ proc'[p].exit = 0
            /\ DOMAIN fileDoc' = (DOMAIN fileDoc) \ {r.cmd.slug}
            /\ \A s \in DOMAIN fileDoc' : fileDoc'[s] = fileDoc[s]
        /\ r.pc # "rms_save" => UNCHANGED <<fileKind, fileDoc>>

C5_ResumeStep(p) ==
    LET slug == proc[p].cmd.slug
    IN  (/\ proc[p].pc = "setup_get_state"
         /\ fileKind = "ok"
         /\ Holds(fileDoc, slug, "assistant_id")
         /\ Holds(fileDoc, slug, "agent_phone"))
        => /\ proc'[p].pc = "exited"
           /\ proc'[p].exit = 0
           /\ proc'[p].ret = <<fileDoc[slug]["assistant_id"], fileDoc[slug]["agent_phone"]>>
           /\ proc'[p].log = <<>>
           /\ UNCHANGED <<fileKind, fileDoc, srv>>

C5_SetupResume == [][\A p \in Procs : C5_ResumeStep(p)]_vars

\* a setup-agent that resumed
C5_Witness ==
    \E p \in Procs :
        /\ Exited(p) /\ proc[p].cmd.c = "setup-agent" /\ proc[p].exit = 0
        /\ proc[p].log = <<>>
        /\ proc[p].ret = <<1, ThePhone.phone_number>>

\* ---------------------------------------------------------------------
\* C6: when the available-phone lookup returns no phone,
\* get_available_phone_number yields (None, None) and setup_voice_agent
\* returns (assistant_id, None) at once: the entry holds the new assistant_id
\* but neither agent_phone nor phone_number_id, and no connection-id lookup
\* and no phone assignment is requested.
C6_NoPhoneAnswer(log) ==
    \E i \in Requests(log) :
        /\ log[i].op = "get_available_phone_number"
        /\ log[i].outcome = "ok"
        /\ "phone" \notin log[i].resp

C6_NoPhone ==
    \A p \in Procs :
        LET r == proc[p]
        IN  C6_NoPhoneAnswer(r.log) =>
            /\ r.phone_id = None /\ r.phone_number = None
            /\ r.cmd.c = "get-available-phone" => r.ret = <<None, None>>
            /\ r.cmd.c = "setup-agent" =>
                /\ Exited(p)
                /\ r.assistant_id # None
                /\ r.ret = <<r.assistant_id, None>>
                /\ Field(fileDoc, r.slug, "assistant_id") = <<r.assistant_id>>
                /\ Field(fileDoc, r.slug, "agent_phone") = <<>>
                /\ Field(fileDoc, r.slug, "phone_number_id") = <<>>
                /\ r.log[Len(r.log)].op = "get_available_phone_number"
                /\ \A i \in Requests(r.log) :
                        r.log[i].op \notin {"get_assistant_connection_id", "assign_phone_number"}

\* a setup-agent that found no phone, for a mission that has a run
C6_Witness ==
    \E p \in Procs :
        /\ proc[p].cmd.c = "setup-agent"
        /\ C6_NoPhoneAnswer(proc[p].log)
        /\ Exited(p)
        /\ Holds(fileDoc, proc[p].slug, "run_id")

\* ---------------------------------------------------------------------
\* C7: there is no rollback.  When a request of init_mission or
\* setup_voice_agent fails after earlier steps of the same invocation wrote to
\* the state file, every field written before the failure is in the state
\* file, with the value written, when the process has exited, and nothing is
\* written after the failure.
\* the value the invocation writes under field k
C7_ValueOf(r, k) ==
    CASE k = "mission_id"      -> r.mission_id
      [] k = "mission_name"    -> r.cmd.name
      [] k = "run_id"          -> r.run_id
      [] k = "assistant_id"    -> r.assistant_id
      [] k = "agent_phone"     -> r.phone_number
      [] k = "phone_number_id" -> r.phone_id

C7_NoRollback ==
    \A p \in Procs :
        LET r == proc[p]
        IN  (/\ r.cmd.c \in {"init", "setup-agent"}
             /\ Exited(p)
             /\ Failures(r.log) # {})
            => /\ Failures(r.log) = {Len(r.log)}
               /\ \A i \in Writes(r.log) : \A k \in r.log[i].keys :
                    /\ Field(fileDoc, r.slug, k) # <<>>
                    /\ k # "created_at" => Field(fileDoc, r.slug, k) = <<C7_ValueOf(r, k)>>

\* an init whose run creation failed: mission_id is in the file, run_id is not
C7_Witness ==
    \E p \in Procs :
        /\ Exited(p) /\ proc[p].cmd.c = "init" /\ proc[p].exit = 1
        /\ Ops(proc[p].log) = << <<"req", "create_mission">>,
                                 <<"write", "update_mission_state">>,
                                 <<"req", "create_run">> >>
        /\ Field(fileDoc, proc[p].slug, "mission_id") = <<proc[p].mission_id>>
        /\ Field(fileDoc, proc[p].slug, "run_id") = <<>>

\* ---------------------------------------------------------------------
\* C8: every request is one-shot and fail-stop.  A request that ends in a
\* transport failure or an HTTP 4xx/5xx response is sent once, and the
\* invocation then ends with exit status 1: the failed request is the last
\* thing the invocation did, no request and no state write follows it.
C8_FailStop ==
    \A p \in Procs :
        LET r == proc[p]
            n == Len(r.log)
        IN  Failures(r.log) # {} =>
            /\ Failures(r.log) = {n}
            /\ r.log[n].kind = "req"
            /\ r.log[n].outcome \in {"http_error", "transport_error"}
            /\ n >= 2 => ~(r.log[n - 1].kind = "req" /\ r.log[n - 1].op = r.log[n].op)
            /\ Exited(p)
            /\ r.exit = 1
            /\ r.err

\* a request failed on the transport after the invocation had written state
C8_Witness ==
    \E p \in Procs :
        /\ Exited(p)
        /\ Len(proc[p].log) >= 3
        /\ proc[p].log[Len(proc[p].log)].outcome = "transport_error"

\* ---------------------------------------------------------------------
\* C9: no failure is silently swallowed.  Every invocation that runs into a
\* failure condition (missing API key, missing argument, malformed JSON
\* argument, malformed state file, transport error, HTTP error, no available
\* phone number, no connection id) prints to stderr and ends with a non-zero
\* exit status.
C9_NoSilentFailure ==
    \A p \in Procs :
        (Exited(p) /\ proc[p].fail # {}) => (proc[p].err /\ proc[p].exit # 0)

\* ---------------------------------------------------------------------
\* C10: update_mission_state is a shallow partial merge.  After
\* update_mission_state(slug, updates) the slug's entry maps every key of
\* updates to its new value, every other field the entry had (its memory
\* included) keeps its value, an absent entry is created holding exactly
\* updates, and the entries of all other slugs are as they were.
C10_Step(p) ==
    LET r == proc[p]
        old == GetEntry(fileDoc, r.slug)
    IN  r.pc = "ums_save" =>
        /\ r.loaded = fileDoc
        /\ fileKind' = "ok"
        /\ DOMAIN fileDoc' = (DOMAIN fileDoc) \cup {r.slug}
        /\ DOMAIN fileDoc'[r.slug] = (DOMAIN old) \cup (DOMAIN r.upd)
        /\ \A k \in DOMAIN r.upd : fileDoc'[r.slug][k] = r.upd[k]
        /\ \A k \in (DOMAIN old) \ (DOMAIN r.upd) : fileDoc'[r.slug][k] = old[k]
        /\ r.slug \notin DOMAIN fileDoc => fileDoc'[r.slug] = r.upd
        /\ \A s \in (DOMAIN fileDoc) \ {r.slug} : fileDoc'[s] = fileDoc[s]

C10_PartialMerge == [][\A p \in Procs : C10_Step(p)]_vars

\* an update that overwrote a field of an entry that has memory, next to
\* another slug's entry
C10_Witness ==
    \E p \in Procs :
        /\ proc[p].pc = "create_run"
        /\ Field(fileDoc, proc[p].slug, "memory") # <<>>
        /\ Holds(fileDoc, proc[p].slug, "mission_id")
        /\ Get(proc[p].existing, "mission_id") \notin {None, proc[p].mission_id}

\* ---------------------------------------------------------------------
\* C11: after append_memory(slug, key, item), memory[key] of the slug is L
\* followed by item, where L is the empty list if the key was absent, the
\* previous list if the value was a list and the one-element list [v] if the
\* value was a non-list value v.  The other memory keys of the slug, and the
\* entries of the other slugs, are as they were.
C11_Before(old, key) ==
    IF key \notin DOMAIN old THEN <<>>
    ELSE IF old[key].isList THEN old[key].items
    ELSE <<old[key]>>

C11_Step(p) ==
    LET r == proc[p]
        old == IF Field(fileDoc, r.slug, "memory") = <<>> THEN EmptyMap
               ELSE fileDoc[r.slug]["memory"]
    IN  (r.pc = "mem_save" /\ r.cmd.c = "append-memory") =>
        /\ r.slug \in DOMAIN fileDoc'
        /\ "memory" \in DOMAIN fileDoc'[r.slug]
        /\ LET new == fileDoc'[r.slug]["memory"]
           IN  /\ DOMAIN new = (DOMAIN old) \cup {r.cmd.key}
               /\ new[r.cmd.key].isList
               /\ new[r.cmd.key].items = C11_Before(old, r.cmd.key) \o <<r.cmd.val>>
               /\ \A k \in (DOMAIN old) \ {r.cmd.key} : new[k] = old[k]
        /\ DOMAIN fileDoc' = (DOMAIN fileDoc) \cup {r.slug}
        /\ \A s \in (DOMAIN fileDoc) \ {r.slug} : fileDoc'[s] = fileDoc[s]

C11_AppendMemory == [][\A p \in Procs : C11_Step(p)]_vars

\* an append to a scalar made it the first item of a two-item list, next to
\* another memory key of the same slug
C11_Witness ==
    \E p \in Procs :
        /\ Exited(p) /\ proc[p].cmd.c = "append-memory" /\ proc[p].exit = 0
        /\ Field(fileDoc, proc[p].slug, "memory") # <<>>
        /\ LET memory == fileDoc[proc[p].slug]["memory"]
           IN  /\ DOMAIN memory = MemoryKeys
               /\ memory[proc[p].cmd.key] =
                      List(<<Scalar(1), List(<<Scalar(2)>>)>>)

\* ---------------------------------------------------------------------
\* C12: remove_mission_state on a slug that has no entry is a no-op: it
\* raises no error, the state file is not rewritten and is not created if it
\* did not exist.  On a slug that has an entry it removes exactly that entry
\* and leaves the entry of every other slug as it was.
C12_Step(p) ==
    LET r == proc[p]
    IN  /\ (r.pc = "rms_load" /\ fileKind # "malformed" /\ r.slug \notin DOMAIN fileDoc) =>
            /\ proc'[p].pc = "exited"
            /\ proc'[p].exit = 0
            /\ proc'[p].err = r.err
            /\ proc'[p].log = r.log
            /\ UNCHANGED <<fileKind, fileDoc>>
        /\ (r.pc = "rms_load" /\ fileKind # "malformed" /\ r.slug \in DOMAIN fileDoc) =>
            /\ proc'[p].pc = "rms_save"
            /\ UNCHANGED <<fileKind, fileDoc>>
        /\ r.pc = "rms_save" =>
            /\ r.slug \in DOMAIN fileDoc
            /\ proc'[p].pc = "exited"
            /\ proc'[p].exit = 0
            /\ fileKind' = "ok"
            /\ DOMAIN fileDoc' = (DOMAIN fileDoc) \ {r.slug}
            /\ \A s \in DOMAIN fileDoc' : fileDoc'[s] = fileDoc[s]

C12_RemoveState == [][\A p \in Procs : C12_Step(p)]_vars

\* a remove-state for a slug without an entry, while another slug has one
C12_Witness ==
    \E p \in Procs :
        /\ Exited(p) /\ proc[p].cmd.c = "remove-state" /\ proc[p].exit = 0
        /\ proc[p].log = <<>>
        /\ proc[p].slug \notin DOMAIN fileDoc
        /\ DOMAIN fileDoc # {}

\* ---------------------------------------------------------------------
\* C13: slugify is idempotent, slugify(slugify(x)) = slugify(x) for every
\* name x, and its result has only characters of [a-z0-9-], no two adjacent
\* hyphens and no hyphen at its start or end;
\* slugify("Find Contractors!") = "find-contractors".
C13_WellFormed(s) ==
    /\ \A i \in 1..Len(s) : s[i] \in SlugChars \cup {"-"}
    /\ \A i \in 1..(Len(s) - 1) : ~(s[i] = "-" /\ s[i + 1] = "-")
    /\ s # <<>> => (s[1] # "-" /\ s[Len(s)] # "-")

C13_Slugify ==
    \A p \in Procs :
        LET r == proc[p]
        IN  (r.cmd.c = "init" /\ r.pc # "idle") =>
            /\ r.slug = slugify(r.cmd.name)
            /\ slugify(r.slug) = r.slug
            /\ C13_WellFormed(r.slug)
            /\ r.cmd.name = FindContractors =>
                    r.slug = <<"f", "i", "n", "d", "-", "c", "o", "n", "t", "r",
                               "a", "c", "t", "o", "r", "s">>

\* a name whose slug needed the lower-casing, the substitution, the collapse of
\* a run of hyphens and the strip at both ends
C13_Witness ==
    \E p \in Procs :
        /\ proc[p].cmd.c = "init"
        /\ proc[p].cmd.name = <<"!", " ", "A", "-">>
        /\ proc[p].slug = <<"a">>

\* ---------------------------------------------------------------------
\* C14: every resource operation unwraps the response envelope in the same
\* priority order (the key of the resource, then "data", then the raw
\* response), so create_mission, create_run, create_assistant and the schedule
\* operations find the identifier both when the resource is nested under its
\* own key and when it is nested under "data".
C14_ResourceKey(c) ==
    CASE c = "create-mission"   -> "mission"
      [] c = "create-run"       -> "run"
      [] c = "create-assistant" -> "assistant"
      [] c = "schedule-call"    -> "event"

\* the identifier the remote API gave to what the invocation created
C14_Created(r) ==
    CASE r.cmd.c = "create-mission"   -> r.mission_id
      [] r.cmd.c = "create-run"       -> r.run_id
      [] r.cmd.c = "create-assistant" -> r.assistant_id
      [] r.cmd.c = "schedule-call"    -> TheEvent.id

C14_Unwrapping ==
    \A p \in Procs :
        LET r == proc[p]
        IN  (/\ Exited(p) /\ r.exit = 0
             /\ r.cmd.c \in {c.c : c \in ResourceCmds}
             /\ r.log[1].resp \cap {C14_ResourceKey(r.cmd.c), "data"} # {})
            => r.ret = <<C14_Created(r)>>

\* ---------------------------------------------------------------------
\* C15: in every reachable state of the state file, an entry that holds both
\* mission_id and run_id holds a run that was created against that very
\* mission, also when two init invocations for the same name run at the same
\* time and interleave their requests and state writes.
C15_RunOfMission ==
    \A s \in DOMAIN fileDoc :
        (Holds(fileDoc, s, "mission_id") /\ Holds(fileDoc, s, "run_id")) =>
            /\ fileDoc[s]["run_id"] \in 1..Len(srv.runs)
            /\ srv.runs[fileDoc[s]["run_id"]] = fileDoc[s]["mission_id"]

\* ---------------------------------------------------------------------
\* C16: whenever setup_voice_agent returns a phone number that is not null,
\* that number was assigned to the assistant's connection by a successful
\* assignment request, in this or an earlier invocation, and it is stored as
\* agent_phone, with its phone_number_id, in the slug's entry; a phone that
\* was found but not assigned is never returned as the agent phone.
C16_ReturnedPhoneAssigned ==
    \A p \in Procs :
        LET r == proc[p]
        IN  (/\ Exited(p) /\ r.cmd.c = "setup-agent" /\ r.exit = 0
             /\ Len(r.ret) = 2 /\ r.ret[2] # None)
            => /\ r.ret[2] = ThePhone.phone_number
               /\ ThePhone.id \in srv.assigned
               /\ Field(fileDoc, r.slug, "agent_phone") = <<r.ret[2]>>
               /\ Field(fileDoc, r.slug, "phone_number_id") = <<ThePhone.id>>

\* ---------------------------------------------------------------------
\* C17: init_mission resumes only when both ids are cached.  Invoked when the
\* slug's entry holds a mission_id but no run_id, it does not reuse the cached
\* mission: it sends a new create-mission request, so that the remote API has
\* one more mission, and overwrites mission_id, mission_name and created_at;
\* the other fields of the entry (memory, assistant_id, ...) are kept.
C17_MissionOnly(entry) ==
    Truthy(Get(entry, "mission_id")) /\ ~Truthy(Get(entry, "run_id"))

C17_Step(p) ==
    LET r == proc[p]
        old == GetEntry(fileDoc, r.slug)
    IN  r.cmd.c = "init" =>
        /\ (r.pc = "init_get_state" /\ fileKind # "malformed" /\ C17_MissionOnly(old)) =>
            /\ proc'[p].pc = "create_mission"
            /\ proc'[p].existing = old
            /\ UNCHANGED <<fileKind, fileDoc, srv>>
        /\ (r.pc = "create_mission" /\ proc'[p].exit # 1) =>
            /\ proc'[p].log = <<Req("create_mission", <<>>, "", {})>>
            /\ srv'.missions = srv.missions + 1
            /\ proc'[p].mission_id = srv'.missions
            /\ proc'[p].mission_id # Get(r.existing, "mission_id")
        /\ (r.pc = "ums_save" /\ r.after = "create_run") =>
            /\ fileDoc'[r.slug]["mission_id"] = r.mission_id
            /\ fileDoc'[r.slug]["mission_name"] = r.cmd.name
            /\ fileDoc'[r.slug]["created_at"] = Now
            /\ DOMAIN fileDoc'[r.slug] =
                    (DOMAIN old) \cup {"mission_id", "mission_name", "created_at"}
            /\ \A k \in (DOMAIN old) \ {"mission_id", "mission_name", "created_at"} :
                    fileDoc'[r.slug][k] = old[k]

C17_InitRetry == [][\A p \in Procs : C17_Step(p)]_vars

\* an init that found a mission but no run cached, next to an assistant, and
\* has written the mission it created over the cached one
C17_Witness ==
    \E p \in Procs :
        /\ proc[p].cmd.c = "init" /\ proc[p].pc = "create_run"
        /\ C17_MissionOnly(proc[p].existing)
        /\ Get(proc[p].existing, "assistant_id") # None
        /\ Field(fileDoc, proc[p].slug, "assistant_id") = <<proc[p].existing["assistant_id"]>>
        /\ Field(fileDoc, proc[p].slug, "mission_id") = <<proc[p].mission_id>>
        /\ proc[p].mission_id = srv.missions
        /\ proc[p].existing["mission_id"] < srv.missions

\* ---------------------------------------------------------------------
\* C18: setup_voice_agent resumes only when both assistant_id and agent_phone
\* are cached.  Invoked when the slug's entry holds an assistant_id but no
\* agent_phone, it creates a new assistant and overwrites assistant_id instead
\* of continuing with the cached one, and it links the new assistant to the
\* run exactly if the entry read at the start of the invocation held both
\* mission_id and run_id.
C18_AssistantOnly(entry) ==
    Truthy(Get(entry, "assistant_id")) /\ ~Truthy(Get(entry, "agent_phone"))

C18_BothIds(entry) ==
    Truthy(Get(entry, "mission_id")) /\ Truthy(Get(entry, "run_id"))

C18_Step(p) ==
    LET r == proc[p]
        old == GetEntry(fileDoc, r.slug)
    IN  r.cmd.c = "setup-agent" =>
        /\ (r.pc = "setup_get_state" /\ fileKind # "malformed" /\ C18_AssistantOnly(old)) =>
            /\ proc'[p].pc = "create_assistant"
            /\ proc'[p].existing = old
            /\ UNCHANGED <<fileKind, fileDoc, srv>>
        /\ (r.pc = "create_assistant" /\ proc'[p].exit # 1) =>
            /\ proc'[p].log = <<Req("create_assistant", <<>>, "", {})>>
            /\ srv'.assistants = srv.assistants + 1
            /\ proc'[p].assistant_id = srv'.assistants
            /\ proc'[p].assistant_id # Get(r.existing, "assistant_id")
        /\ (r.pc = "ums_save" /\ r.after # "return") =>
            /\ fileDoc'[r.slug]["assistant_id"] = r.assistant_id
            /\ \A k \in (DOMAIN old) \ {"assistant_id"} : fileDoc'[r.slug][k] = old[k]
            /\ proc'[p].pc = (IF C18_BothIds(r.existing) THEN "link_agent" ELSE "get_phone")
        /\ (r.pc = "link_agent" /\ proc'[p].exit # 1) =>
            /\ C18_BothIds(r.existing)
            /\ proc'[p].log[Len(proc'[p].log)].op = "link_telnyx_agent"
            /\ proc'[p].log[Len(proc'[p].log)].ids =
                    <<r.existing["mission_id"], r.existing["run_id"], r.assistant_id>>

\* a link request is in the log exactly if the entry read at the start held
\* both ids, once the invocation has got past the point where it links
C18_Linked(p) ==
    LET r == proc[p]
        linked == \E i \in Requests(r.log) :
                      r.log[i].op = "link_telnyx_agent" /\ r.log[i].outcome = "ok"
    IN  (r.cmd.c = "setup-agent"
         /\ \E i \in Requests(r.log) : r.log[i].op = "get_available_phone_number")
        => (linked <=> C18_BothIds(r.existing))

C18_SetupRetry == [][\A p \in Procs : C18_Step(p) /\ C18_Linked(p)']_vars

\* a setup-agent that found an assistant but no phone cached, created another
\* assistant and linked it to the run of the entry
C18_Witness ==
    \E p \in Procs :
        /\ proc[p].cmd.c = "setup-agent" /\ proc[p].pc = "get_phone"
        /\ C18_AssistantOnly(proc[p].existing)
        /\ C18_BothIds(proc[p].existing)
        /\ Field(fileDoc, proc[p].slug, "assistant_id") = <<proc[p].assistant_id>>
        /\ proc[p].existing["assistant_id"] < proc[p].assistant_id
        /\ Len(proc[p].log) = 3

\* ---------------------------------------------------------------------
\* C19: the read operations never change the state file.  get_mission_state,
\* get_memory and the commands list-state and get-state leave the content of
\* the file as it is, do not create the file when it is absent and do not
\* create an entry for a slug that has none: they return an empty mapping, or
\* null for an absent memory key.  An entry comes into existence only through
\* update_mission_state, save_memory or append_memory.
C19_Step(p) ==
    LET r == proc[p]
        done == proc'[p]
    IN  /\ r.pc \in {"read_state", "init_get_state", "setup_get_state"} =>
                UNCHANGED <<fileKind, fileDoc>>
        /\ (r.pc = "read_state" /\ done.exit = 0 /\ r.slug \notin DOMAIN fileDoc) =>
            /\ r.cmd.c = "get-state" => done.ret = <<EmptyMap>>
            /\ (r.cmd.c = "get-memory" /\ r.cmd.key = "") => done.ret = <<EmptyMap>>
            /\ (r.cmd.c = "get-memory" /\ r.cmd.key # "") => done.ret = <<None>>
        /\ (r.pc = "read_state" /\ done.exit = 0 /\ r.cmd.c = "get-memory" /\ r.cmd.key # ""
              /\ r.slug \in DOMAIN fileDoc) =>
                done.ret = (IF Field(fileDoc, r.slug, "memory") # <<>>
                               /\ r.cmd.key \in DOMAIN fileDoc[r.slug]["memory"]
                            THEN <<fileDoc[r.slug]["memory"][r.cmd.key]>>
                            ELSE <<None>>)

\* the step made an entry for a slug that had none
C19_Created ==
    \A s \in (DOMAIN fileDoc') \ (DOMAIN fileDoc) :
        \E p \in Procs :
            /\ proc[p].slug = s
            /\ proc[p].pc \in {"ums_save", "mem_save"}
            /\ proc'[p].log # proc[p].log
            /\ proc'[p].log[Len(proc'[p].log)].op
                    \in {"update_mission_state", "save-memory", "append-memory"}

C19_ReadOnly == [][C19_Created /\ \A p \in Procs : C19_Step(p)]_vars

\* a get-memory for a key of a slug that has no entry, while another slug has
\* one: null is returned and no entry was made
C19_Witness ==
    \E p \in Procs :
        /\ Exited(p) /\ proc[p].cmd.c = "get-memory" /\ proc[p].exit = 0
        /\ proc[p].cmd.key # ""
        /\ proc[p].slug \notin DOMAIN fileDoc
        /\ DOMAIN fileDoc # {}
        /\ proc[p].ret = <<None>>

====
